---- MODULE Spec2Model ----
(***************************************************************************)
(* A model of the Starry ECS runtime (src/src/lib.rs): the World with its  *)
(* type-erased component and resource slots, the typed accessors that     *)
(* take per-slot read/write locks, and the group-parallel scheduler       *)
(* (start, single_step, run).                                             *)
(***************************************************************************)
EXTENDS Integers, Sequences, FiniteSets, TLC

VARIABLES
    components,        \* World.components: Vec<(Arc<RwLock<dyn Component>>, TypeId)>
    resources,         \* World.resources: HashMap<TypeId, Arc<RwLock<dyn Resource>>>
    systems,           \* World.systems: HashMap<i32, Vec<SystemType>>
    starting_systems,  \* World.starting_systems: Vec<SystemType>
    call,              \* the World method the caller is inside: "none", "start", "single_step"
    numbers,           \* single_step's local `numbers`: the sorted keys
    gi,                \* position of the group being run in `numbers`
    threads,           \* thread 0 is the caller; 1..n are the tasks of the running par_iter
    last,              \* name of the API call that returned last
    hist               \* history of the calls made (what the claims speak about)

vars == <<components, resources, systems, starting_systems, call, numbers, gi,
          threads, last, hist>>

-----------------------------------------------------------------------------
(* Bounds of the model *)

MaxRegistrations == 3
MaxCalls == 2
MaxHeld == 1
MaxTasks == 2
MaxLockCalls == 3
MaxGuardCalls == 1
MaxKeyCalls == 1

-----------------------------------------------------------------------------
(* Types, type ids and type names *)

Types == {"TestComponent", "TestResource", "RunCounter"}

\* TypeId::of::<T>(): an opaque identifier, distinct for distinct types
TypeIdOf(T) ==
    CASE T = "TestComponent" -> 71
      [] T = "TestResource" -> 72
      [] T = "RunCounter" -> 73

\* std::any::type_name::<T>(): the display name the errors carry
type_name(T) == "tests::" \o T

ComponentTypes == {"TestComponent", "TestResource"}
ResourceTypes == {"TestResource", "RunCounter"}
ComponentValues == {-100, 0}
ResourceValues == {100, 0}

\* DefaultOrdering as i32
PreRun == 1
Run == 2
PostRun == 3
Keys == {PreRun, Run, PostRun}

-----------------------------------------------------------------------------
(* Sequence helpers *)

Range(s) == {s[i] : i \in DOMAIN s}

RECURSIVE Count(_, _)
Count(s, x) ==
    IF s = <<>> THEN 0
    ELSE (IF s[1] = x THEN 1 ELSE 0) + Count(Tail(s), x)

\* the indices of s from i on, ascending, whose element carries the tag
RECURSIVE IndicesFrom(_, _, _)
IndicesFrom(s, i, tag) ==
    IF i > Len(s) THEN <<>>
    ELSE (IF s[i].tag = tag THEN <<i>> ELSE <<>>) \o IndicesFrom(s, i + 1, tag)

\* slice::sort() on the keys: insertion into an ascending sequence
RECURSIVE InsertSorted(_, _)
InsertSorted(s, x) ==
    IF s = <<>> THEN <<x>>
    ELSE IF x <= s[1] THEN <<x>> \o s
    ELSE <<s[1]>> \o InsertSorted(Tail(s), x)

RECURSIVE SortAscending(_)
SortAscending(s) ==
    IF s = <<>> THEN <<>>
    ELSE InsertSorted(SortAscending(Tail(s)), s[1])

\* an iteration that visits the built-in keys whether they are in the map or not
IterOrdersWithDefaults(S) ==
    {s \in [1..Cardinality(S \cup Keys) -> S \cup Keys] : Range(s) = S \cup Keys}

\* HashMap::iter(): the entries in an order the map does not promise
IterOrders(S) == {s \in [1..Cardinality(S) -> S] : Range(s) = S}

-----------------------------------------------------------------------------
(* parking_lot::RwLock: a reader count and a writer bit per slot *)

NewSlot(v) == [val |-> v, readers |-> 0, writer |-> FALSE]

\* read() that does not wait for the writer
CanReadAlways(slot) == TRUE

\* write() that waits for the readers only
CanWriteBesideWriter(slot) == slot.readers = 0

\* RwLock::read() returns once no writer holds the lock
CanRead(slot) == ~slot.writer

\* write() that lets a reader upgrade: it waits for a writer only
CanWriteBesideReaders(slot) == ~slot.writer

\* RwLock::write() returns once nobody holds the lock
CanWrite(slot) == ~slot.writer /\ slot.readers = 0

\* a request that gives up waiting after a while and is served all the same
CanLockAfterTimeout(slot, mode) == TRUE

CanLock(slot, mode) == IF mode = "w" THEN CanWrite(slot) ELSE CanRead(slot)

\* write() taking the lock the way read() does
LockShared(slot, mode) == [slot EXCEPT !.readers = @ + 1]

Lock(slot, mode) ==
    IF mode = "w" THEN [slot EXCEPT !.writer = TRUE]
    ELSE [slot EXCEPT !.readers = @ + 1]

\* a write guard whose drop leaves the lock taken
UnlockReadersOnly(slot, mode) ==
    IF mode = "w" THEN slot ELSE [slot EXCEPT !.readers = @ - 1]

\* dropping a guard
Unlock(slot, mode) ==
    IF mode = "w" THEN [slot EXCEPT !.writer = FALSE]
    ELSE [slot EXCEPT !.readers = @ - 1]

\* a guard: which slot it locks and how
ResGuard(id, mode) == [kind |-> "res", slot |-> id, mode |-> mode]
CompGuard(i, mode) == [kind |-> "comp", slot |-> i, mode |-> mode]

RECURSIVE UnlockAll(_, _, _, _)
UnlockAll(slot, kind, key, gs) ==
    IF gs = <<>> THEN slot
    ELSE LET g == gs[1]
             s == IF g.kind = kind /\ g.slot = key THEN Unlock(slot, g.mode) ELSE slot
         IN UnlockAll(s, kind, key, Tail(gs))

\* the slots after every guard of gs has been dropped
DropFromComponents(comps, gs) ==
    [i \in DOMAIN comps |-> UnlockAll(comps[i], "comp", i, gs)]
\* guards on resources that go out of scope without unlocking
KeepResourceLocks(res, gs) == res

DropFromResources(res, gs) ==
    [id \in DOMAIN res |-> UnlockAll(res[id], "res", id, gs)]

-----------------------------------------------------------------------------
(* The World: construction and registration *)

NoRet == [kind |-> "none", name |-> "", guards |-> <<>>]

Thread(fn, code, st) ==
    [fn |-> fn, code |-> code, pc |-> 1, st |-> st, guards |-> <<>>,
     scan |-> 0, got |-> <<>>, tmp |-> 0, ret |-> NoRet]

MainThread == Thread("main", <<>>, "ready")

\* the system functions of the tests and of the documentation's examples
OrderFns == {"first", "second"}
StoreFns == {"test_resource", "test_system", "read_resource", "write_components"}
Fns == OrderFns \cup StoreFns

Zero(S) == [x \in S |-> 0]

\* components, resources, systems, startups: the registration calls, in call order;
\* left: start(), single_step() and run() calls the caller still makes; steps: single_step() calls returned;
\* tstart, tfin: invocations begun and completed in the current tick, per key and function;
\* bstart, bfin: the same for the current start() call, per function;
\* bruns: startup invocations completed since World::new();
\* bowed: one per start() call and startup registration present at that call
NoHist == [components |-> <<>>, resources |-> <<>>, systems |-> <<>>,
           startups |-> <<>>, left |-> MaxCalls, steps |-> 0,
           tstart |-> Zero(Keys \X Fns), tfin |-> Zero(Keys \X Fns),
           bstart |-> Zero(Fns), bfin |-> Zero(Fns),
           bruns |-> Zero(Fns), bowed |-> Zero(Fns)]

\* the registration calls made so far
Registered ==
    Len(hist.components) + Len(hist.resources) + Len(hist.systems) + Len(hist.startups)

Idle == call = "none" /\ threads[0].st = "ready"

\* nothing borrowed from the World: `&mut self` methods can be called
Unborrowed == Idle /\ threads[0].guards = <<>>

\* World::new()
Init ==
    /\ components = <<>>
    /\ resources = <<>>
    /\ systems = <<>>
    /\ starting_systems = <<>>
    /\ call = "none"
    /\ numbers = <<>>
    /\ gi = 0
    /\ threads = (0 :> MainThread)
    /\ last = "new"
    /\ hist = NoHist

\* the new slot put in front of the others
InsertComponentFirst(comps, T, v) == <<[tag |-> TypeIdOf(T)] @@ NewSlot(v)>> \o comps

\* Vec::push of the new slot with its type tag
PushComponent(comps, T, v) == Append(comps, [tag |-> TypeIdOf(T)] @@ NewSlot(v))

\* World::add_component
AddComponent(T, v) ==
    /\ Unborrowed
    /\ Registered < MaxRegistrations
    /\ components' = PushComponent(components, T, v)
    /\ hist' = [hist EXCEPT !.components = Append(@, <<T, v>>)]
    /\ last' = "add_component"
    /\ UNCHANGED <<resources, systems, starting_systems, call, numbers, gi, threads>>

\* HashMap::insert(id, slot): the last registration wins
InsertReplacing(res, T, v) ==
    [id \in DOMAIN res \cup {TypeIdOf(T)} |->
        IF id = TypeIdOf(T) THEN NewSlot(v) ELSE res[id]]

\* HashMap::entry(id).or_insert(slot)
EntryOrInsert(res, T, v) ==
    IF TypeIdOf(T) \in DOMAIN res THEN res
    ELSE res @@ (TypeIdOf(T) :> NewSlot(v))

\* World::add_resource
AddResource(T, v) ==
    /\ Unborrowed
    /\ Registered < MaxRegistrations
    /\ resources' = EntryOrInsert(resources, T, v)
    /\ hist' = [hist EXCEPT !.resources = Append(@, <<T, v>>)]
    /\ last' = "add_resource"
    /\ UNCHANGED <<components, systems, starting_systems, call, numbers, gi, threads>>

-----------------------------------------------------------------------------
(* Accessors: one step per lock acquisition *)

Instr(op, T, mode, unwrap) == [op |-> op, ty |-> T, mode |-> mode, unwrap |-> unwrap, d |-> 0]

Cur(t) == threads[t].code[threads[t].pc]

Executing(t, op) ==
    /\ threads[t].st = "running"
    /\ threads[t].pc <= Len(threads[t].code)
    /\ Cur(t).op = op

\* the instruction is over: the caller is back in its own code, a system goes on
Advance(t, th) ==
    IF t = 0 THEN [th EXCEPT !.st = "ready"]
    ELSE [th EXCEPT !.pc = @ + 1]

\* Result::unwrap() on an Err: the thread panics and unwinds, dropping its guards
Panicked(th) == [th EXCEPT !.st = "panicked", !.guards = <<>>, !.got = <<>>, !.scan = 0]

\* what the accessor returns when no slot has the type
NotFound(t, th, kind) ==
    LET err == [kind |-> kind, name |-> type_name(Cur(t).ty), guards |-> <<>>]
    IN IF Cur(t).unwrap THEN Panicked([th EXCEPT !.ret = err])
       ELSE Advance(t, [th EXCEPT !.ret = err])

\* World::try_get_resource / try_get_resource_mut (get_resource[_mut] with unwrap)
GetResource(t) ==
    /\ Executing(t, "get_resource")
    /\ LET th == threads[t]
           id == TypeIdOf(Cur(t).ty)
           mode == Cur(t).mode
       IN IF id \notin DOMAIN resources
          THEN /\ threads' = [threads EXCEPT ![t] = NotFound(t, th, "ResourceNotFound")]
               /\ resources' = DropFromResources(resources,
                                  IF Cur(t).unwrap THEN th.guards ELSE <<>>)
               /\ components' = DropFromComponents(components,
                                  IF Cur(t).unwrap THEN th.guards ELSE <<>>)
          ELSE /\ CanLock(resources[id], mode)
               /\ resources' = [resources EXCEPT ![id] = Lock(@, mode)]
               /\ threads' = [threads EXCEPT ![t] = Advance(t,
                     [th EXCEPT !.guards = Append(@, ResGuard(id, mode)),
                                !.ret = [kind |-> "ok", name |-> "",
                                         guards |-> <<ResGuard(id, mode)>>]])]
               /\ UNCHANGED components
    /\ UNCHANGED <<systems, starting_systems, call, numbers, gi, last, hist>>

\* the scan without its filter: every slot is selected
SelectedUnfiltered(comps, id) == [i \in 1..Len(comps) |-> i]

\* the selected slots visited from the last registered to the first
SelectedBackwards(comps, id) ==
    LET sel == IndicesFrom(comps, 1, id)
    IN [j \in 1..Len(sel) |-> sel[Len(sel) + 1 - j]]

\* .filter(|(_, t)| t == &id): the slots the scan selects
Selected(comps, id) == IndicesFrom(comps, 1, id)

\* World::try_get_components[_mut]: the iterator locks the next selected slot
ScanComponents(t) ==
    /\ Executing(t, "get_components")
    /\ LET th == threads[t]
           sel == Selected(components, TypeIdOf(Cur(t).ty))
           mode == Cur(t).mode
       IN /\ th.scan < Len(sel)
          /\ LET i == sel[th.scan + 1]
             IN /\ CanLock(components[i], mode)
                /\ components' = [components EXCEPT ![i] = Lock(@, mode)]
                /\ threads' = [threads EXCEPT ![t] =
                      [th EXCEPT !.scan = @ + 1,
                                 !.guards = Append(@, CompGuard(i, mode)),
                                 !.got = Append(@, CompGuard(i, mode))]]
    /\ UNCHANGED <<resources, systems, starting_systems, call, numbers, gi, last, hist>>

\* World::try_get_components[_mut]: .collect() is done, comps.len() decides the result
CollectComponents(t) ==
    /\ Executing(t, "get_components")
    /\ LET th == threads[t]
           sel == Selected(components, TypeIdOf(Cur(t).ty))
       IN /\ th.scan = Len(sel)
          /\ IF Len(th.got) = 0
             THEN /\ threads' = [threads EXCEPT ![t] = NotFound(t, th, "ComponentNotFound")]
                  /\ resources' = DropFromResources(resources,
                                     IF Cur(t).unwrap THEN th.guards ELSE <<>>)
                  /\ components' = DropFromComponents(components,
                                     IF Cur(t).unwrap THEN th.guards ELSE <<>>)
             ELSE /\ threads' = [threads EXCEPT ![t] = Advance(t,
                        [th EXCEPT !.scan = 0, !.got = <<>>,
                                   !.ret = [kind |-> "ok", name |-> "", guards |-> th.got]])]
                  /\ UNCHANGED <<components, resources>>
    /\ UNCHANGED <<systems, starting_systems, call, numbers, gi, last, hist>>

\* the caller (a test, an application) calls one accessor on the World
Accessors ==
    {Instr(op, T, mode, FALSE) : op \in {"get_resource", "get_components"},
                                 T \in Types, mode \in {"r", "w"}}

CallAccessor(ins) ==
    /\ Idle
    /\ Len(threads[0].guards) <= MaxHeld
    /\ threads' = [threads EXCEPT ![0] =
          [@ EXCEPT !.st = "running", !.code = <<ins>>, !.pc = 1, !.ret = NoRet]]
    /\ last' = "try_get"
    /\ UNCHANGED <<components, resources, systems, starting_systems, call, numbers, gi, hist>>

\* the caller lets go of every guard it holds
DropGuards ==
    /\ Idle
    /\ threads[0].guards # <<>>
    /\ components' = DropFromComponents(components, threads[0].guards)
    /\ resources' = DropFromResources(resources, threads[0].guards)
    /\ threads' = [threads EXCEPT ![0] = [@ EXCEPT !.guards = <<>>, !.ret = NoRet]]
    /\ last' = "drop"
    /\ UNCHANGED <<systems, starting_systems, call, numbers, gi, hist>>

-----------------------------------------------------------------------------
(* System functions *)

\* the body of each system function, as the accessor calls and accesses it makes
Body(f) ==
    CASE f = "first" -> <<>>
      [] f = "second" -> <<>>
      [] f = "test_resource" ->
            << Instr("get_resource", "TestResource", "w", TRUE),
               Instr("load", "TestResource", "w", FALSE),
               [Instr("store", "TestResource", "w", FALSE) EXCEPT !.d = 10],
               Instr("get_resource", "RunCounter", "w", TRUE),
               Instr("assert_resource", "TestResource", "w", FALSE),
               Instr("load", "RunCounter", "w", FALSE),
               [Instr("store", "RunCounter", "w", FALSE) EXCEPT !.d = 1] >>
      [] f = "test_system" ->
            << Instr("get_components", "TestComponent", "r", TRUE),
               Instr("assert_component", "TestComponent", "r", FALSE) >>
      [] f = "read_resource" ->
            << Instr("get_resource", "TestResource", "r", TRUE) >>
      [] f = "write_components" ->
            << Instr("get_components", "TestComponent", "w", TRUE) >>
      [] f = "write_test_resource" ->
            << Instr("get_resource", "TestResource", "w", TRUE) >>
      [] f = "write_run_counter" ->
            << Instr("get_resource", "RunCounter", "w", TRUE) >>
      [] f = "read_then_write" ->
            << Instr("get_resource", "TestResource", "r", TRUE),
               Instr("get_resource", "TestResource", "w", TRUE) >>
      [] f = "write_then_read" ->
            << Instr("get_resource", "TestResource", "w", TRUE),
               Instr("get_resource", "TestResource", "r", TRUE) >>
      [] f = "resource_then_counter" ->
            << Instr("get_resource", "TestResource", "w", TRUE),
               Instr("get_resource", "RunCounter", "w", TRUE) >>
      [] f = "counter_then_resource" ->
            << Instr("get_resource", "RunCounter", "w", TRUE),
               Instr("get_resource", "TestResource", "w", TRUE) >>

\* `let x = guard.x`: the field read through a guard on the resource
Load(t) ==
    /\ Executing(t, "load")
    /\ threads' = [threads EXCEPT ![t] =
          Advance(t, [@ EXCEPT !.tmp = resources[TypeIdOf(Cur(t).ty)].val])]
    /\ UNCHANGED <<components, resources, systems, starting_systems, call, numbers, gi,
                   last, hist>>

\* `guard.x = x + d`: the field written through a write guard on the resource
Store(t) ==
    /\ Executing(t, "store")
    /\ resources' = [resources EXCEPT ![TypeIdOf(Cur(t).ty)].val = threads[t].tmp + Cur(t).d]
    /\ threads' = [threads EXCEPT ![t] = Advance(t, @)]
    /\ UNCHANGED <<components, systems, starting_systems, call, numbers, gi, last, hist>>

\* tests/resource.rs: match run_counter.runs { 0 => x == 110, 1 => x == 120, _ => {} }
ResourceAssertion ==
    LET runs == resources[TypeIdOf("RunCounter")].val
        x == resources[TypeIdOf("TestResource")].val
    IN CASE runs = 0 -> x = 110
         [] runs = 1 -> x = 120
         [] OTHER -> TRUE

\* tests/components.rs: assert_eq!(test_comp.x, -100) on the first guard
ComponentAssertion(t) == components[threads[t].ret.guards[1].slot].val = -100

\* assert_eq!: goes on when the values are equal, panics otherwise
AssertEq(t) ==
    /\ \/ Executing(t, "assert_resource")
       \/ Executing(t, "assert_component")
    /\ LET holds == IF Cur(t).op = "assert_resource" THEN ResourceAssertion
                    ELSE ComponentAssertion(t)
           th == threads[t]
       IN IF holds
          THEN /\ threads' = [threads EXCEPT ![t] = Advance(t, th)]
               /\ UNCHANGED <<components, resources>>
          ELSE /\ threads' = [threads EXCEPT ![t] = Panicked(th)]
               /\ components' = DropFromComponents(components, th.guards)
               /\ resources' = DropFromResources(resources, th.guards)
    /\ UNCHANGED <<systems, starting_systems, call, numbers, gi, last, hist>>

-----------------------------------------------------------------------------
(* The scheduler *)

\* add_system replacing the key's list instead of pushing to it
PushSystemReplacing(sys, k, f) ==
    IF k \in DOMAIN sys THEN [sys EXCEPT ![k] = <<f>>] ELSE sys @@ (k :> <<f>>)

\* entry(key).or_insert(vec![]) and then entry(key).and_modify(|x| x.push(system))
PushSystem(sys, k, f) ==
    LET m == IF k \in DOMAIN sys THEN sys ELSE sys @@ (k :> <<>>)
    IN [m EXCEPT ![k] = Append(@, f)]

\* World::add_system
AddSystem(k, f) ==
    /\ Unborrowed
    /\ Registered < MaxRegistrations
    /\ systems' = PushSystem(systems, k, f)
    /\ hist' = [hist EXCEPT !.systems = Append(@, <<k, f>>)]
    /\ last' = "add_system"
    /\ UNCHANGED <<components, resources, starting_systems, call, numbers, gi, threads>>

\* World::add_startup_system
AddStartupSystem(f) ==
    /\ Unborrowed
    /\ Registered < MaxRegistrations
    /\ starting_systems' = Append(starting_systems, f)
    /\ hist' = [hist EXCEPT !.startups = Append(@, f)]
    /\ last' = "add_startup_system"
    /\ UNCHANGED <<components, resources, systems, call, numbers, gi, threads>>

\* par_iter().map(|system| system(&self)): one task per element, none started yet
Tasks(fs) == [i \in 1..Len(fs) |-> Thread(fs[i], Body(fs[i]), "ready")]

Fork(fs) == (0 :> threads[0]) @@ Tasks(fs)

TaskIds == DOMAIN threads \ {0}

\* .collect(): every task of the par_iter has ended
Joined == \A t \in TaskIds : threads[t].st \in {"done", "panicked"}

\* every system's panic caught and dropped where it happened
NonePanicked == FALSE

SomePanicked == \E t \in TaskIds : threads[t].st = "panicked"

\* start() leaving out the last startup system
StartupTasksButLast == SubSeq(starting_systems, 1, Len(starting_systems) - 1)

\* start() going over the startup list twice
StartupTasksTwice == starting_systems \o starting_systems

\* the systems World::start launches
StartupTasks == starting_systems

\* World::start: the call and the fan-out of the startup systems
Start ==
    /\ Unborrowed
    /\ hist.left > 0
    /\ call' = "start"
    /\ threads' = Fork(StartupTasks)
    /\ hist' = [hist EXCEPT !.left = @ - 1,
                            !.bstart = Zero(DOMAIN @), !.bfin = Zero(DOMAIN @),
                            !.bowed = [f \in DOMAIN @ |-> @[f] + Count(hist.startups, f)]]
    /\ UNCHANGED <<components, resources, systems, starting_systems, numbers, gi, last>>

\* World::start returns
ReturnStart ==
    /\ call = "start"
    /\ Joined /\ ~SomePanicked
    /\ call' = "none"
    /\ threads' = (0 :> threads[0])
    /\ last' = "start"
    /\ UNCHANGED <<components, resources, systems, starting_systems, numbers, gi, hist>>

\* `numbers` left in the map's iteration order
UnsortedKeys(order) == order

\* numbers.sort()
SortedKeys(order) == SortAscending(order)

\* World::single_step: the call; `numbers` is collected from the map and sorted
SingleStep ==
    /\ Unborrowed
    /\ hist.left > 0
    /\ call' = "single_step"
    /\ \E order \in IterOrders(DOMAIN systems) : numbers' = SortedKeys(order)
    /\ gi' = 0
    /\ hist' = [hist EXCEPT !.left = @ - 1,
                            !.tstart = Zero(DOMAIN @), !.tfin = Zero(DOMAIN @)]
    /\ UNCHANGED <<components, resources, systems, starting_systems, threads, last>>

\* the outer map() left lazy: no group is ever looked up and run
GroupNeverRun(i) == <<>>

\* the outer map() looking up the smallest key at every position
GroupAtFirstKey(i) == systems[numbers[1]]

\* the group the outer map() handles next
GroupAt(i) == systems[numbers[i]]

\* World::single_step and World::run: the previous group has joined, the next one
\* is launched
RunGroup ==
    /\ call \in {"single_step", "run"}
    /\ Joined /\ ~SomePanicked
    /\ gi < Len(numbers)
    /\ gi' = gi + 1
    /\ threads' = Fork(GroupAt(gi + 1))
    /\ UNCHANGED <<components, resources, systems, starting_systems, call, numbers,
                   last, hist>>

\* World::single_step returns after the last group
ReturnSingleStep ==
    /\ call = "single_step"
    /\ Joined /\ ~SomePanicked
    /\ gi = Len(numbers)
    /\ call' = "none"
    /\ numbers' = <<>>
    /\ gi' = 0
    /\ threads' = (0 :> threads[0])
    /\ last' = "single_step"
    /\ hist' = [hist EXCEPT !.steps = @ + 1]
    /\ UNCHANGED <<components, resources, systems, starting_systems>>

\* World::run: the first pass of the loop; `numbers` is collected and sorted
RunForever ==
    /\ Unborrowed
    /\ hist.left > 0
    /\ call' = "run"
    /\ \E order \in IterOrders(DOMAIN systems) : numbers' = SortedKeys(order)
    /\ gi' = 0
    /\ hist' = [hist EXCEPT !.left = @ - 1,
                            !.tstart = Zero(DOMAIN @), !.tfin = Zero(DOMAIN @)]
    /\ UNCHANGED <<components, resources, systems, starting_systems, threads, last>>

\* World::run: the last group of a pass has joined and `loop` starts the next pass
RunLoop ==
    /\ call = "run"
    /\ Joined /\ ~SomePanicked
    /\ gi = Len(numbers)
    /\ \E order \in IterOrders(DOMAIN systems) : numbers' = SortedKeys(order)
    /\ gi' = 0
    /\ threads' = (0 :> threads[0])
    /\ hist' = [hist EXCEPT !.tstart = Zero(DOMAIN @), !.tfin = Zero(DOMAIN @)]
    /\ UNCHANGED <<components, resources, systems, starting_systems, call, last>>

\* a task's panic is resumed in the caller once the par_iter has joined
PropagatePanic ==
    /\ call \in {"start", "single_step", "run"}
    /\ Joined /\ SomePanicked
    /\ call' = "panicked"
    /\ threads' = (0 :> threads[0])
    /\ UNCHANGED <<components, resources, systems, starting_systems, numbers, gi,
                   last, hist>>

\* a worker thread of the pool begins to run a task
TaskStart(t) ==
    /\ t \in TaskIds
    /\ threads[t].st = "ready"
    /\ threads' = [threads EXCEPT ![t].st = "running"]
    /\ hist' = IF call = "start"
               THEN [hist EXCEPT !.bstart[threads[t].fn] = @ + 1]
               ELSE [hist EXCEPT !.tstart[<<numbers[gi], threads[t].fn>>] = @ + 1]
    /\ UNCHANGED <<components, resources, systems, starting_systems, call, numbers, gi, last>>

\* the system function returns: its guards go out of scope
TaskReturn(t) ==
    /\ t \in TaskIds
    /\ threads[t].st = "running"
    /\ threads[t].pc > Len(threads[t].code)
    /\ components' = DropFromComponents(components, threads[t].guards)
    /\ resources' = DropFromResources(resources, threads[t].guards)
    /\ threads' = [threads EXCEPT ![t] = [@ EXCEPT !.st = "done", !.guards = <<>>, !.ret = NoRet]]
    /\ hist' = IF call = "start"
               THEN [hist EXCEPT !.bfin[threads[t].fn] = @ + 1,
                                 !.bruns[threads[t].fn] = @ + 1]
               ELSE [hist EXCEPT !.tfin[<<numbers[gi], threads[t].fn>>] = @ + 1]
    /\ UNCHANGED <<systems, starting_systems, call, numbers, gi, last>>

-----------------------------------------------------------------------------
(* The scheduler alone: systems that touch no slot, registered in any order *)

NextSched ==
    \/ \E k \in Keys, f \in OrderFns : AddSystem(k, f)
    \/ \E f \in OrderFns : AddStartupSystem(f)
    \/ Start
    \/ ReturnStart
    \/ SingleStep
    \/ RunGroup
    \/ ReturnSingleStep
    \/ RunForever
    \/ RunLoop
    \/ \E t \in DOMAIN threads : TaskStart(t)
    \/ \E t \in DOMAIN threads : TaskReturn(t)

SpecSched == Init /\ [][NextSched]_vars

AllKeyFns == Keys \X Fns

\* C1: within one single_step(), no system of a key starts before every system
\* registered under each smaller key has completed in that tick, whatever the
\* registration order and the interleaving inside a group.
C1_GroupsInKeyOrder ==
    call = "single_step" =>
        \A k1 \in Keys, k2 \in Keys :
            (k1 < k2 /\ \E f \in Fns : hist.tstart[<<k2, f>>] > 0)
                => \A f \in Fns : hist.tfin[<<k1, f>>] = Count(hist.systems, <<k1, f>>)

\* a system of the larger key runs, and the larger key was registered first
C1_Witness ==
    /\ call = "single_step"
    /\ Len(hist.systems) >= 2
    /\ hist.systems[1][1] > hist.systems[2][1]
    /\ \E f \in Fns : hist.tstart[<<hist.systems[1][1], f>>] > 0

\* C2: a single_step() call invokes each registration of a ticked system exactly
\* once (a function registered twice runs twice) and returns only after all of
\* these invocations have completed.
C2_EachRegistrationOncePerStep ==
    /\ call = "single_step" =>
          \A kf \in AllKeyFns : hist.tstart[kf] <= Count(hist.systems, kf)
    /\ (call = "none" /\ last = "single_step") =>
          \A kf \in AllKeyFns :
              /\ hist.tstart[kf] = Count(hist.systems, kf)
              /\ hist.tfin[kf] = Count(hist.systems, kf)

\* single_step() has returned with a function registered twice under one key and
\* once under another
C2_Witness ==
    /\ call = "none" /\ last = "single_step"
    /\ \E k1 \in Keys, k2 \in Keys, f \in Fns :
          /\ k1 # k2
          /\ Count(hist.systems, <<k1, f>>) = 2
          /\ Count(hist.systems, <<k2, f>>) = 1

\* C4: a start() call runs each registered startup system exactly once and
\* returns only after all of them have completed, so in start(); single_step()
\* every startup system has completed before a ticked system begins.
C4_StartRunsEveryStartupSystem ==
    /\ \A f \in Fns : hist.bstart[f] <= Count(hist.startups, f)
    /\ (last = "start" /\ call # "start") =>
          \A f \in Fns :
              /\ hist.bstart[f] = Count(hist.startups, f)
              /\ hist.bfin[f] = Count(hist.startups, f)

\* start() returned with two startup systems and a ticked system of the following
\* single_step() has begun
C4_Witness ==
    /\ last = "start" /\ call = "single_step"
    /\ Len(hist.startups) = 2
    /\ \E kf \in AllKeyFns : hist.tstart[kf] > 0

\* C5 as stated: every startup system runs exactly once in the World's lifetime,
\* and no ticked system runs before the startup systems have run.
C5_StartupOnceAndFirst ==
    /\ \A f \in Fns : hist.bruns[f] <= Count(hist.startups, f)
    /\ (\E kf \in AllKeyFns : hist.tstart[kf] > 0) =>
          \A f \in Fns : hist.bruns[f] >= Count(hist.startups, f)

\* C5 as amended: the World keeps no phase; outside a start() call the startup
\* invocations completed are exactly one per start() call and startup system
\* registered at that call, so single_step() and run() run no startup system and
\* a second start() runs them again.
C5_StartupOncePerStartCall ==
    call # "start" => \A f \in Fns : hist.bruns[f] = hist.bowed[f]

\* start() was called twice and a startup system registered once has run twice
C5_Witness ==
    /\ call = "none"
    /\ \E f \in Fns : Count(hist.startups, f) = 1 /\ hist.bruns[f] = 2

-----------------------------------------------------------------------------
(* Systems that lock slots, run by start() and single_step() *)

\* a registration of the world under test: a startup system or a system under Run
LockRegistrations ==
    UNION {[1..n -> {"startup", "run"} \X StoreFns] : n \in 0..MaxTasks}

RECURSIVE RegisterAll(_, _)
RegisterAll(w, regs) ==
    IF regs = <<>> THEN w
    ELSE LET r == regs[1]
             w2 == IF r[1] = "startup"
                   THEN [w EXCEPT !.starting_systems = Append(@, r[2]),
                                  !.startups = Append(@, r[2])]
                   ELSE [w EXCEPT !.systems = PushSystem(@, Run, r[2]),
                                  !.log = Append(@, <<Run, r[2]>>)]
         IN RegisterAll(w2, Tail(regs))

\* the World of tests/resource.rs and tests/components.rs: TestResource { x: 100 },
\* RunCounter { runs: 0 } and two TestComponent { x: -100 }, with up to MaxTasks
\* systems registered
InitLock ==
    \E regs \in LockRegistrations :
        LET w == RegisterAll([systems |-> <<>>, starting_systems |-> <<>>,
                              log |-> <<>>, startups |-> <<>>], regs)
        IN /\ components = PushComponent(PushComponent(<<>>, "TestComponent", -100),
                                         "TestComponent", -100)
           /\ resources = EntryOrInsert(EntryOrInsert(<<>>, "TestResource", 100),
                                        "RunCounter", 0)
           /\ systems = w.systems
           /\ starting_systems = w.starting_systems
           /\ call = "none"
           /\ numbers = <<>>
           /\ gi = 0
           /\ threads = (0 :> MainThread)
           /\ last = "add_system"
           /\ hist = [NoHist EXCEPT
                        !.components = <<<<"TestComponent", -100>>, <<"TestComponent", -100>>>>,
                        !.resources = <<<<"TestResource", 100>>, <<"RunCounter", 0>>>>,
                        !.systems = w.log,
                        !.startups = w.startups,
                        !.left = MaxLockCalls]

NextLock ==
    \/ Start
    \/ ReturnStart
    \/ SingleStep
    \/ RunGroup
    \/ ReturnSingleStep
    \/ \E t \in DOMAIN threads : TaskStart(t)
    \/ \E t \in DOMAIN threads : GetResource(t)
    \/ \E t \in DOMAIN threads : ScanComponents(t)
    \/ \E t \in DOMAIN threads : CollectComponents(t)
    \/ \E t \in DOMAIN threads : Load(t)
    \/ \E t \in DOMAIN threads : Store(t)
    \/ \E t \in DOMAIN threads : AssertEq(t)
    \/ \E t \in DOMAIN threads : TaskReturn(t)

SpecLock == InitLock /\ [][NextLock]_vars

\* the guards of the given mode that the threads hold on a slot
RECURSIVE GuardsIn(_, _, _, _)
GuardsIn(gs, kind, slot, mode) ==
    IF gs = <<>> THEN 0
    ELSE (IF gs[1] = [kind |-> kind, slot |-> slot, mode |-> mode] THEN 1 ELSE 0)
         + GuardsIn(Tail(gs), kind, slot, mode)

RECURSIVE GuardsHeld(_, _, _, _)
GuardsHeld(ts, kind, slot, mode) ==
    IF ts = {} THEN 0
    ELSE LET t == CHOOSE x \in ts : TRUE
         IN GuardsIn(threads[t].guards, kind, slot, mode)
            + GuardsHeld(ts \ {t}, kind, slot, mode)

Exclusive(kind, slot) ==
    LET w == GuardsHeld(DOMAIN threads, kind, slot, "w")
        r == GuardsHeld(DOMAIN threads, kind, slot, "r")
    IN w = 0 \/ (w = 1 /\ r = 0)

\* C3: on every component and resource slot, in every state of start() and
\* single_step(), the guards held are none, only read guards, or one write guard
\* alone.
C3_WriteGuardIsExclusive ==
    /\ \A i \in DOMAIN components : Exclusive("comp", i)
    /\ \A id \in DOMAIN resources : Exclusive("res", id)

\* a system holds the write guard on the TestResource slot while another system of
\* the group is waiting in try_get_resource for a read guard on that slot
C3_Witness ==
    \E t \in TaskIds, u \in TaskIds :
        /\ t # u
        /\ threads[u].st = "running"
        /\ threads[u].guards = <<>>
        /\ threads[u].pc = 1 /\ threads[u].code # <<>>
        /\ threads[u].code[1] = Instr("get_resource", "TestResource", "r", TRUE)
        /\ ResGuard(TypeIdOf("TestResource"), "w") \in Range(threads[t].guards)
        /\ resources[TypeIdOf("TestResource")].writer

TestResourceX == resources[TypeIdOf("TestResource")].val

\* exactly n registrations of test_resource, all ticked
Incrementers(n) ==
    /\ Count(hist.systems, <<Run, "test_resource">>) = n
    /\ Count(hist.startups, "test_resource") = 0

\* C9: with TestResource { x: 100 } and one ticked system adding 10 under a write
\* guard, x is 100 + 10 * n once n single_step() calls have returned, and a
\* start() call leaves x as it is.
C9_MutationsPersistAcrossTicks ==
    Incrementers(1) =>
        /\ call \in {"none", "start"} => TestResourceX = 100 + 10 * hist.steps
        /\ call = "single_step" => TestResourceX \in {100 + 10 * hist.steps,
                                                      100 + 10 * (hist.steps + 1)}

\* start() and two single_step() calls have returned and x is 120
C9_Witness ==
    /\ Incrementers(1)
    /\ call = "none"
    /\ hist.steps = 2 /\ hist.left = 0
    /\ TestResourceX = 120

\* C10: two systems under one key that each add 10 to the same resource under a
\* write guard both complete in every interleaving and lose no update: x has
\* grown by 20 whenever single_step() returns.
C10_WritersSerialized ==
    Incrementers(2) =>
        /\ call = "none" => TestResourceX = 100 + 20 * hist.steps
        /\ (call = "none" /\ last = "single_step") =>
              hist.tfin[<<Run, "test_resource">>] = 2
        /\ call = "single_step" => ENABLED NextLock

\* single_step() has returned, both systems have completed and x is 120
C10_Witness ==
    /\ Incrementers(2)
    /\ call = "none" /\ last = "single_step"
    /\ hist.tfin[<<Run, "test_resource">>] = 2
    /\ TestResourceX = 120

-----------------------------------------------------------------------------
(* The store and its accessors, used from the caller's thread *)

NextStore ==
    \/ \E T \in ComponentTypes, v \in ComponentValues : AddComponent(T, v)
    \/ \E T \in ResourceTypes, v \in ResourceValues : AddResource(T, v)
    \/ \E ins \in Accessors : CallAccessor(ins)
    \/ GetResource(0)
    \/ ScanComponents(0)
    \/ CollectComponents(0)
    \/ DropGuards

SpecStore == Init /\ [][NextStore]_vars

\* the add_resource calls made for type T, in call order
AddedResources(T) == SelectSeq(hist.resources, LAMBDA e : e[1] = T)

\* the registration numbers of the components of type T, ascending
RECURSIVE RegisteredFrom(_, _)
RegisteredFrom(i, T) ==
    IF i > Len(hist.components) THEN <<>>
    ELSE (IF hist.components[i][1] = T THEN <<i>> ELSE <<>>) \o RegisteredFrom(i + 1, T)

\* C6: after any sequence of add_resource calls a type has a resource slot iff
\* add_resource was called for it, and the slot holds the value of the FIRST of
\* those calls: later calls of the same type change nothing.
C6_FirstResourceWins ==
    \A T \in Types :
        LET adds == AddedResources(T)
        IN /\ (TypeIdOf(T) \in DOMAIN resources) <=> (adds # <<>>)
           /\ adds # <<>> => resources[TypeIdOf(T)].val = adds[1][2]
           /\ Cardinality(DOMAIN resources) = Cardinality({e[1] : e \in Range(hist.resources)})

\* a type was registered a second time with another value
C6_Witness ==
    \E T \in Types :
        /\ Len(AddedResources(T)) >= 2
        /\ AddedResources(T)[1][2] # AddedResources(T)[2][2]

\* a components accessor of the caller has just returned
ComponentsReturned ==
    /\ Idle /\ last = "try_get"
    /\ threads[0].code # <<>>
    /\ threads[0].code[1].op = "get_components"

\* C7: try_get_components::<T>() and try_get_components_mut::<T>() return one
\* guard per registered instance of T and none for another type, in the
\* registration order of the instances, whatever was registered in between.
C7_OneGuardPerInstanceInOrder ==
    (ComponentsReturned /\ threads[0].ret.kind = "ok") =>
        LET ins == threads[0].code[1]
            gs == threads[0].ret.guards
            regs == RegisteredFrom(1, ins.ty)
        IN /\ Len(gs) = Len(regs)
           /\ \A n \in DOMAIN gs :
                 /\ gs[n].kind = "comp" /\ gs[n].mode = ins.mode
                 /\ gs[n].slot \in DOMAIN components
                 /\ components[gs[n].slot].tag = TypeIdOf(ins.ty)
                 /\ components[gs[n].slot].val = hist.components[regs[n]][2]

\* two instances of T with different values and an instance of another type
\* registered between them, and the accessor for T has returned its guards
C7_Witness ==
    /\ ComponentsReturned /\ threads[0].ret.kind = "ok"
    /\ Len(hist.components) = 3
    /\ hist.components[1][1] = threads[0].code[1].ty
    /\ hist.components[2][1] # threads[0].code[1].ty
    /\ hist.components[3][1] = threads[0].code[1].ty
    /\ hist.components[1][2] # hist.components[3][2]

\* no slot of the kind the instruction asks for was registered with its type
Unregistered(ins) ==
    IF ins.op = "get_components"
    THEN \A e \in Range(hist.components) : e[1] # ins.ty
    ELSE \A e \in Range(hist.resources) : e[1] # ins.ty

NotFoundKind(ins) ==
    IF ins.op = "get_components" THEN "ComponentNotFound" ELSE "ResourceNotFound"

\* the caller is inside, or has just left, an accessor for an unregistered type
InFailingAccessor ==
    /\ call = "none"
    /\ last = "try_get"
    /\ threads[0].code # <<>>
    /\ Unregistered(threads[0].code[1])

\* C8: an accessor for a type with no registered slot returns ComponentNotFound or
\* ResourceNotFound with the type's name ...
C8_NotFoundResult ==
    (InFailingAccessor /\ threads[0].st = "ready") =>
        /\ threads[0].ret.kind = NotFoundKind(threads[0].code[1])
        /\ threads[0].ret.name = type_name(threads[0].code[1].ty)
        /\ threads[0].ret.guards = <<>>

\* ... and no step of the failing call takes a lock or changes a slot
C8_NotFoundStep ==
    (InFailingAccessor /\ threads[0].st = "running") =>
        /\ components' = components
        /\ resources' = resources
        /\ threads'[0].guards = threads[0].guards

\* C8: for a type with no registered slot the four try_get accessors return the
\* NotFound error of their kind carrying the type's name, acquire no lock and
\* leave every slot and lock as it was, also with slots of other types registered.
C8_NotFoundLeavesLocksAlone == [](C8_NotFoundResult) /\ [][C8_NotFoundStep]_vars

\* ComponentNotFound was returned while a slot of another type is registered and
\* locked by a guard the caller holds
C8_Witness ==
    /\ InFailingAccessor /\ threads[0].st = "ready"
    /\ threads[0].ret.kind = "ComponentNotFound"
    /\ \E i \in DOMAIN components : components[i].readers > 0 \/ components[i].writer


-----------------------------------------------------------------------------
(* Systems of one group that take guards on one or more slots and keep    *)
(* them until they return                                                 *)

\* systems that take one guard, two guards on one slot, or guards on two slots
GuardFns == {"write_test_resource", "write_run_counter", "read_then_write",
             "write_then_read", "resource_then_counter", "counter_then_resource",
             "test_system", "write_components"}

\* up to MaxTasks add_system(f, DefaultOrdering::Run) calls
GuardRegistrations ==
    UNION {[1..n -> {"run"} \X GuardFns] : n \in 0..MaxTasks}

\* the World of the tests with up to MaxTasks systems, all registered under Run
InitGuard ==
    \E regs \in GuardRegistrations :
        LET w == RegisterAll([systems |-> <<>>, starting_systems |-> <<>>,
                              log |-> <<>>, startups |-> <<>>], regs)
        IN /\ components = PushComponent(PushComponent(<<>>, "TestComponent", -100),
                                         "TestComponent", -100)
           /\ resources = EntryOrInsert(EntryOrInsert(<<>>, "TestResource", 100),
                                        "RunCounter", 0)
           /\ systems = w.systems
           /\ starting_systems = w.starting_systems
           /\ call = "none"
           /\ numbers = <<>>
           /\ gi = 0
           /\ threads = (0 :> MainThread)
           /\ last = "add_system"
           /\ hist = [NoHist EXCEPT
                        !.components = <<<<"TestComponent", -100>>, <<"TestComponent", -100>>>>,
                        !.resources = <<<<"TestResource", 100>>, <<"RunCounter", 0>>>>,
                        !.systems = w.log,
                        !.left = MaxGuardCalls,
                        !.tstart = Zero({Run} \X GuardFns),
                        !.tfin = Zero({Run} \X GuardFns)]

NextGuard ==
    \/ SingleStep
    \/ RunGroup
    \/ ReturnSingleStep
    \/ \E t \in DOMAIN threads : TaskStart(t)
    \/ \E t \in DOMAIN threads : GetResource(t)
    \/ \E t \in DOMAIN threads : ScanComponents(t)
    \/ \E t \in DOMAIN threads : CollectComponents(t)
    \/ \E t \in DOMAIN threads : AssertEq(t)
    \/ \E t \in DOMAIN threads : TaskReturn(t)

SpecGuard == InitGuard /\ [][NextGuard]_vars

\* the task is inside an accessor and its next step is a lock request
Requesting(t) ==
    /\ t \in TaskIds
    /\ \/ Executing(t, "get_resource") /\ TypeIdOf(Cur(t).ty) \in DOMAIN resources
       \/ /\ Executing(t, "get_components")
          /\ threads[t].scan < Len(Selected(components, TypeIdOf(Cur(t).ty)))

\* the slot the request is for
RequestedSlot(t) ==
    IF Cur(t).op = "get_resource"
    THEN [kind |-> "res", slot |-> TypeIdOf(Cur(t).ty)]
    ELSE [kind |-> "comp",
          slot |-> Selected(components, TypeIdOf(Cur(t).ty))[threads[t].scan + 1]]

\* some task holds a guard on the requested slot itself that the request conflicts with
ConflictHeld(t) ==
    \E u \in TaskIds : \E j \in DOMAIN threads[u].guards :
        LET g == threads[u].guards[j]
        IN /\ g.kind = RequestedSlot(t).kind
           /\ g.slot = RequestedSlot(t).slot
           /\ (g.mode = "w" \/ Cur(t).mode = "w")

\* the (kind, type) pairs the accessors of a system name
Touches(f) == {<<Body(f)[j].op, Body(f)[j].ty>> : j \in
                  {j \in DOMAIN Body(f) : Body(f)[j].op \in {"get_resource", "get_components"}}}

\* the registered systems access pairwise different types, each type once
DisjointSystems ==
    /\ \A i, j \in DOMAIN hist.systems :
          i # j => Touches(hist.systems[i][2]) \cap Touches(hist.systems[j][2]) = {}
    /\ \A i \in DOMAIN hist.systems :
          LET code == Body(hist.systems[i][2])
          IN \A a, b \in DOMAIN code : (a # b /\ code[a].ty = code[b].ty) =>
                ~(code[a].op = code[b].op /\ code[a].op \in {"get_resource", "get_components"})

-----------------------------------------------------------------------------
(* Systems that abort: the World of tests/resource.rs without its RunCounter, *)
(* where test_resource panics in get_resource_mut::<RunCounter>()             *)

AbortFns == {"test_resource", "read_resource", "test_system"}

\* a registration call: add_startup_system(f) (the key is not used) or
\* add_system(f, key) with key Run or PostRun
AbortCalls ==
    ({"add_startup_system"} \X {Run} \X AbortFns)
    \cup ({"add_system"} \X {Run, PostRun} \X AbortFns)

\* up to MaxTasks registration calls
AbortRegistrations == UNION {[1..n -> AbortCalls] : n \in 0..MaxTasks}

RECURSIVE RegisterKeyed(_, _)
RegisterKeyed(w, regs) ==
    IF regs = <<>> THEN w
    ELSE LET r == regs[1]
             w2 == IF r[1] = "add_startup_system"
                   THEN [w EXCEPT !.starting_systems = Append(@, r[3]),
                                  !.startups = Append(@, r[3])]
                   ELSE [w EXCEPT !.systems = PushSystem(@, r[2], r[3]),
                                  !.log = Append(@, <<r[2], r[3]>>)]
         IN RegisterKeyed(w2, Tail(regs))

InitAbort ==
    \E regs \in AbortRegistrations :
        LET w == RegisterKeyed([systems |-> <<>>, starting_systems |-> <<>>,
                                log |-> <<>>, startups |-> <<>>], regs)
        IN /\ components = PushComponent(PushComponent(<<>>, "TestComponent", -100),
                                         "TestComponent", -100)
           /\ resources = EntryOrInsert(<<>>, "TestResource", 100)
           /\ systems = w.systems
           /\ starting_systems = w.starting_systems
           /\ call = "none"
           /\ numbers = <<>>
           /\ gi = 0
           /\ threads = (0 :> MainThread)
           /\ last = "add_system"
           /\ hist = [NoHist EXCEPT
                        !.components = <<<<"TestComponent", -100>>, <<"TestComponent", -100>>>>,
                        !.resources = <<<<"TestResource", 100>>>>,
                        !.systems = w.log,
                        !.startups = w.startups]

NextAbort ==
    \/ Start
    \/ ReturnStart
    \/ SingleStep
    \/ RunGroup
    \/ ReturnSingleStep
    \/ PropagatePanic
    \/ \E t \in DOMAIN threads : TaskStart(t)
    \/ \E t \in DOMAIN threads : GetResource(t)
    \/ \E t \in DOMAIN threads : ScanComponents(t)
    \/ \E t \in DOMAIN threads : CollectComponents(t)
    \/ \E t \in DOMAIN threads : Load(t)
    \/ \E t \in DOMAIN threads : Store(t)
    \/ \E t \in DOMAIN threads : AssertEq(t)
    \/ \E t \in DOMAIN threads : TaskReturn(t)

SpecAbort == InitAbort /\ [][NextAbort]_vars

\* a system of the running group has aborted
Aborted == \E t \in TaskIds : threads[t].st = "panicked"

\* once a system of the group has aborted, the call neither launches the next group
\* nor returns normally; when the group has joined, the abort is raised in the caller
C12_AbortAtBarrier ==
    Aborted =>
        /\ ~ENABLED RunGroup
        /\ ~ENABLED ReturnSingleStep
        /\ ~ENABLED ReturnStart
        /\ Joined => ENABLED PropagatePanic

\* after the abort has left single_step(), no system of a higher key was started
\* in that tick
C12_HigherKeysNotStarted ==
    (call = "panicked" /\ gi > 0) =>
        \A kf \in DOMAIN hist.tstart : kf[1] > numbers[gi] => hist.tstart[kf] = 0

\* a step taken with an aborted system in the group stays in the group, and nothing
\* at all happens once the abort has reached the caller
C12_AbortStep ==
    /\ Aborted => (gi' = gi /\ numbers' = numbers /\ hist.steps' = hist.steps
                   /\ call' \in {call, "panicked"})
    /\ call # "panicked"

\* C12: an aborting system ends the whole stepping: the abort leaves single_step()
\* (or start()) at the group's barrier, no group of a higher key is started in that
\* tick, and no later call or tick is run
C12_AbortEndsStepping ==
    /\ [](C12_AbortAtBarrier /\ C12_HigherKeysNotStarted)
    /\ [][C12_AbortStep]_vars

\* test_resource, under Run, has aborted single_step(): a PostRun group is
\* registered and the caller had a further call to make
C12_Witness ==
    /\ call = "panicked"
    /\ gi > 0 /\ numbers[gi] = Run
    /\ PostRun \in DOMAIN systems
    /\ hist.tstart[<<Run, "test_resource">>] > 0
    /\ hist.left > 0


\* nobody holds the slot's lock
Unlocked(slot) == slot.readers = 0 /\ ~slot.writer

\* the lock of the slot is held exactly by the guards the running tasks hold on it
LockedByGuards(slot, kind, key) ==
    /\ slot.readers = GuardsHeld(DOMAIN threads, kind, key, "r")
    /\ slot.writer <=> GuardsHeld(DOMAIN threads, kind, key, "w") > 0

\* C16: a system invocation that has ended, by returning or by aborting, holds no
\* guard and every lock is held by a guard of a system still running; so at each
\* join barrier and whenever start() or single_step() has returned (or has been
\* left by an abort) no component or resource slot is locked
C16_NoGuardAcrossBarrier ==
    /\ \A t \in TaskIds : threads[t].st # "running" => threads[t].guards = <<>>
    /\ \A i \in DOMAIN components : LockedByGuards(components[i], "comp", i)
    /\ \A id \in DOMAIN resources : LockedByGuards(resources[id], "res", id)
    /\ (Joined \/ call \in {"none", "panicked"}) =>
          /\ \A i \in DOMAIN components : Unlocked(components[i])
          /\ \A id \in DOMAIN resources : Unlocked(resources[id])

\* the barrier of a group of single_step() in which read_resource has returned, after
\* it got its read guard, and test_resource has aborted while holding a write guard
C16_Witness ==
    /\ call = "single_step"
    /\ gi > 0 /\ Joined
    /\ \E t, u \in TaskIds :
          /\ threads[t].fn = "read_resource" /\ threads[t].st = "done"
          /\ threads[u].fn = "test_resource" /\ threads[u].st = "panicked"
          /\ resources[TypeIdOf("TestResource")].val > 100


-----------------------------------------------------------------------------
(* World::run on a World with systems that touch no slot, under a scheduler *)
(* that lets every thread that can take a step take one                     *)

\* up to MaxTasks add_system calls, with any key and function
RunRegistrations ==
    UNION {[1..n -> {"add_system"} \X Keys \X OrderFns] : n \in 0..MaxTasks}

InitRun ==
    \E regs \in RunRegistrations :
        LET w == RegisterKeyed([systems |-> <<>>, starting_systems |-> <<>>,
                                log |-> <<>>, startups |-> <<>>], regs)
        IN /\ components = <<>>
           /\ resources = <<>>
           /\ systems = w.systems
           /\ starting_systems = <<>>
           /\ call = "none"
           /\ numbers = <<>>
           /\ gi = 0
           /\ threads = (0 :> MainThread)
           /\ last = "add_system"
           /\ hist = [NoHist EXCEPT !.systems = w.log]

NextRun ==
    \/ RunForever
    \/ RunGroup
    \/ RunLoop
    \/ \E t \in DOMAIN threads : TaskStart(t)
    \/ \E t \in DOMAIN threads : TaskReturn(t)

\* the calling thread goes on whenever it can, and the pool gives every task that
\* is ready or running a worker thread
FairRun ==
    /\ WF_vars(RunForever \/ RunGroup \/ RunLoop)
    /\ \A t \in 1..(MaxTasks + 1) : WF_vars(TaskStart(t) \/ TaskReturn(t))

SpecRun == InitRun /\ [][NextRun]_vars /\ FairRun

\* in a pass of run(), a system starts only after every system of each smaller key
\* has completed in that pass, and no registration is invoked twice in a pass
C13_PassInOrder ==
    call = "run" =>
        /\ \A k1 \in Keys, k2 \in Keys :
              (k1 < k2 /\ \E f \in Fns : hist.tstart[<<k2, f>>] > 0)
                  => \A f \in Fns : hist.tfin[<<k1, f>>] = Count(hist.systems, <<k1, f>>)
        /\ \A kf \in AllKeyFns : hist.tstart[kf] <= Count(hist.systems, kf)

\* C13: run() is never left; each of its passes runs the groups in ascending key
\* order with a barrier after each group; and as every invocation terminates, each
\* pass gets to its end with every registration invoked, again and again
C13_RunRepeatsSingleStep ==
    /\ [][call = "run" => call' = "run"]_vars
    /\ [](C13_PassInOrder)
    /\ <>(call = "run")
    /\ \A kf \in AllKeyFns :
          /\ []<>(call = "run" /\ hist.tstart[kf] = 0)
          /\ []<>(call = "run" /\ hist.tfin[kf] = Count(hist.systems, kf))

\* the end of a pass of run() over two groups, the larger key registered first:
\* every registration has been invoked and the loop is about to start over
C13_Witness ==
    /\ call = "run"
    /\ Len(numbers) = 2 /\ gi = 2 /\ Joined
    /\ hist.systems[1][1] > hist.systems[2][1]
    /\ \A kf \in AllKeyFns : hist.tfin[kf] = Count(hist.systems, kf)


-----------------------------------------------------------------------------
(* Ordering tags: the built-in enum, the enum of tests/system_ordering.rs and *)
(* a tag of the caller's own whose integer is the one of DefaultOrdering::Run *)

CPreRun == 100
CRun == 200
CPostRun == 300

\* a variant of an ordering enum with the discriminant its declaration gives it
Tag(enum, name, value) == [enum |-> enum, name |-> name, value |-> value]

DefaultOrdering ==
    {Tag("DefaultOrdering", "PreRun", PreRun), Tag("DefaultOrdering", "Run", Run),
     Tag("DefaultOrdering", "PostRun", PostRun)}

CustomOrdering ==
    {Tag("CustomOrdering", "CPreRun", CPreRun), Tag("CustomOrdering", "CRun", CRun),
     Tag("CustomOrdering", "CPostRun", CPostRun)}

\* any other type that is Into<i32> + Copy: here one variant declared `= 2`
CallerOrdering == {Tag("CallerOrdering", "Same", Run)}

SystemOrdering == DefaultOrdering \cup CustomOrdering \cup CallerOrdering

\* the position of the variant in its enum instead of its discriminant
IntoPosition(tag) ==
    CASE tag.name \in {"PreRun", "CPreRun", "Same"} -> 1
      [] tag.name \in {"Run", "CRun"} -> 2
      [] OTHER -> 3

\* `self as i32` of a #[repr(i32)] enum: the discriminant of the variant
IntoI32(tag) == tag.value

\* World::add_system(system_ordering, system): the tag is converted, then pushed
AddSystemTagged(tag, f) ==
    /\ Unborrowed
    /\ Len(hist.systems) < MaxTasks
    /\ systems' = PushSystem(systems, IntoI32(tag), f)
    /\ hist' = [hist EXCEPT !.systems = Append(@, <<tag, f>>)]
    /\ last' = "add_system"
    /\ UNCHANGED <<components, resources, starting_systems, call, numbers, gi, threads>>

\* World::new(); the per-tick counters range over the integers of all tags
InitKeys ==
    /\ components = <<>>
    /\ resources = <<>>
    /\ systems = <<>>
    /\ starting_systems = <<>>
    /\ call = "none"
    /\ numbers = <<>>
    /\ gi = 0
    /\ threads = (0 :> MainThread)
    /\ last = "new"
    /\ hist = [NoHist EXCEPT
                 !.left = MaxKeyCalls,
                 !.tstart = Zero({PreRun, Run, PostRun, CPreRun, CRun, CPostRun} \X OrderFns),
                 !.tfin = Zero({PreRun, Run, PostRun, CPreRun, CRun, CPostRun} \X OrderFns)]

NextKeys ==
    \/ \E tag \in SystemOrdering, f \in OrderFns : AddSystemTagged(tag, f)
    \/ SingleStep
    \/ RunGroup
    \/ ReturnSingleStep
    \/ \E t \in DOMAIN threads : TaskStart(t)
    \/ \E t \in DOMAIN threads : TaskReturn(t)

SpecKeys == InitKeys /\ [][NextKeys]_vars

\* the functions registered, in call order, with a tag whose declared value is v
RECURSIVE FnsDeclared(_, _)
FnsDeclared(log, v) ==
    IF log = <<>> THEN <<>>
    ELSE (IF log[1][1].value = v THEN <<log[1][2]>> ELSE <<>>) \o FnsDeclared(Tail(log), v)

\* C14: the group of a system is decided by the integer its tag stands for and by
\* nothing else: the keys of the map are the declared integers of the tags used,
\* each group holds, in call order, the systems of all tags with that integer
\* (built-in or not), and a tick runs the groups in ascending integer order,
\* completing a group before a system of a larger integer starts
C14_KeysComparedByValue ==
    /\ DOMAIN systems = {hist.systems[i][1].value : i \in DOMAIN hist.systems}
    /\ \A v \in DOMAIN systems : systems[v] = FnsDeclared(hist.systems, v)
    /\ call = "single_step" =>
          \A kf1 \in DOMAIN hist.tstart, kf2 \in DOMAIN hist.tstart :
              (kf1[1] < kf2[1] /\ hist.tstart[kf2] > 0)
                  => hist.tfin[kf1] = Count(FnsDeclared(hist.systems, kf1[1]), kf1[2])

\* a tick in which the group of integer 2 runs, side by side, a system registered
\* with the caller's own tag and one registered with DefaultOrdering::Run
C14_Witness ==
    /\ call = "single_step"
    /\ \E i, j \in DOMAIN hist.systems :
          /\ hist.systems[i][1] = Tag("CallerOrdering", "Same", Run)
          /\ hist.systems[j][1] = Tag("DefaultOrdering", "Run", Run)
    /\ gi > 0 /\ numbers[gi] = Run
    /\ TaskIds = {1, 2}
    /\ \A t \in TaskIds : threads[t].st = "running"

-----------------------------------------------------------------------------
(* A World on which no ticked system is ever registered: components,      *)
(* resources and startup systems are added and single_step() is called    *)

NextIdle ==
    \/ \E T \in ComponentTypes, v \in ComponentValues : AddComponent(T, v)
    \/ \E T \in ResourceTypes, v \in ResourceValues : AddResource(T, v)
    \/ \E f \in StoreFns : AddStartupSystem(f)
    \/ SingleStep
    \/ ReturnSingleStep

SpecIdle == Init /\ [][NextIdle]_vars

\* a single_step() call on a World without ticked systems has no group to run and
\* can return at once
C15_IdleStepReturns ==
    (call = "single_step" /\ DOMAIN systems = {}) =>
        /\ numbers = <<>>
        /\ TaskIds = {}
        /\ ENABLED ReturnSingleStep

\* entering and leaving single_step() leaves the World as it is
C15_IdleStepFrame ==
    (DOMAIN systems = {} /\ (call = "single_step" \/ call' = "single_step")) =>
        /\ UNCHANGED <<components, resources, systems, starting_systems>>
        /\ call = "single_step" => call' = "none"

\* C15: with no ticked system registered, every single_step() call returns without
\* an error and leaves the component slots, the resource slots, their values and
\* both system registries as they were
C15_IdleStepIsNoOp ==
    /\ [](C15_IdleStepReturns)
    /\ [][C15_IdleStepFrame]_vars

\* single_step() has returned for the second time on a World with a component, a
\* resource and a startup system
C15_Witness ==
    /\ call = "none" /\ last = "single_step"
    /\ hist.steps = 2
    /\ DOMAIN systems = {}
    /\ Len(components) = 1 /\ Len(starting_systems) = 1
    /\ DOMAIN resources # {}


-----------------------------------------------------------------------------
(* What start() and single_step() leave alone, over the systems of SpecLock *)

\* a running system holds a write guard on the slot, whose lock is write-locked
WriteGuarded(slot, kind, key) ==
    /\ slot.writer
    /\ \E t \in TaskIds :
          /\ threads[t].st = "running"
          /\ GuardsIn(threads[t].guards, kind, key, "w") = 1

\* a step of start() or single_step(), from the call to the return
C17_FrameStep ==
    /\ Len(components') = Len(components)
    /\ \A i \in DOMAIN components : components'[i].tag = components[i].tag
    /\ DOMAIN resources' = DOMAIN resources
    /\ starting_systems' = starting_systems
    /\ systems' = systems
    /\ \A i \in DOMAIN components :
          components'[i].val # components[i].val
              => WriteGuarded(components[i], "comp", i)
    /\ \A id \in DOMAIN resources :
          resources'[id].val # resources[id].val
              => WriteGuarded(resources[id], "res", id)

\* C17: no step of start() or single_step() adds, removes, reorders or retags a
\* component slot, adds or removes a resource slot, or changes either system
\* registry; a value inside a slot changes only in a step of a system that holds a
\* write guard on that slot
C17_StructureUnchanged == [][C17_FrameStep]_vars

\* test_resource has written x = 110 into the TestResource slot during
\* single_step() and still holds its write guard
C17_Witness ==
    /\ call = "single_step"
    /\ resources[TypeIdOf("TestResource")].val = 110
    /\ \E t \in TaskIds :
          /\ threads[t].fn = "test_resource"
          /\ threads[t].pc = 4
          /\ threads[t].guards = <<ResGuard(TypeIdOf("TestResource"), "w")>>


-----------------------------------------------------------------------------
(* Systems of one group that all scan the components of one type *)

\* every registered system is one try_get_components[_mut]::<TestComponent>() call
OnlyComponentScans ==
    /\ \A i \in DOMAIN hist.systems :
          hist.systems[i][2] \in {"test_system", "write_components"}
    /\ \A i \in DOMAIN hist.startups :
          hist.startups[i] \in {"test_system", "write_components"}

\* the guards a scan has taken so far are on the first slots of the type, in
\* registration order, none skipped, and the task still holds every one of them
ScanInOrder(t) ==
    LET got == threads[t].got
        tag == TypeIdOf(Cur(t).ty)
    IN /\ \A a, b \in DOMAIN got : a < b => got[a].slot < got[b].slot
       /\ \A a \in DOMAIN got :
             /\ components[got[a].slot].tag = tag
             /\ got[a].mode = Cur(t).mode
             /\ GuardsIn(threads[t].guards, "comp", got[a].slot, got[a].mode) = 1
       /\ \A i \in DOMAIN components :
             (components[i].tag = tag /\ got # <<>> /\ i < got[Len(got)].slot)
                 => \E a \in DOMAIN got : got[a].slot = i

\* C19: a components-by-type accessor takes the locks of the slots of the type one
\* at a time, in registration order, keeping those it has; and systems of a group
\* that each make one such call for the same type, reading or writing, never all
\* wait: some step can be taken until start() or single_step() has returned
C19_ScansNeverDeadlock ==
    /\ \A t \in TaskIds : Executing(t, "get_components") => ScanInOrder(t)
    /\ (OnlyComponentScans /\ call \in {"start", "single_step"}) => ENABLED NextLock

\* a writing scan holds the first TestComponent slot and goes on to the second
\* while a reading scan of the same group waits for the first
C19_Witness ==
    /\ OnlyComponentScans
    /\ \E t, u \in TaskIds :
          /\ threads[t].fn = "write_components"
          /\ threads[t].got = <<CompGuard(1, "w")>>
          /\ threads[u].fn = "test_system"
          /\ threads[u].st = "running" /\ threads[u].pc = 1
          /\ threads[u].got = <<>>


-----------------------------------------------------------------------------
(* Misuse of the locks, over the systems of SpecGuard *)

\* the task requests a guard on a slot on which it holds a guard itself, one of the
\* two being a write guard
SelfConflict(t) ==
    /\ Requesting(t)
    /\ \E j \in DOMAIN threads[t].guards :
          LET g == threads[t].guards[j]
          IN /\ g.kind = RequestedSlot(t).kind
             /\ g.slot = RequestedSlot(t).slot
             /\ (g.mode = "w" \/ Cur(t).mode = "w")

\* such a request is not granted, and its group can neither join nor be followed
C18_SelfConflictWaits ==
    \A t \in DOMAIN threads : SelfConflict(t) =>
        /\ ~ENABLED (GetResource(t) \/ ScanComponents(t))
        /\ call = "single_step"
        /\ ~Joined
        /\ ~ENABLED RunGroup
        /\ ~ENABLED ReturnSingleStep

\* whatever step is taken, the task is still there with the same request
C18_SelfConflictStep ==
    \A t \in DOMAIN threads : SelfConflict(t) =>
        /\ t \in DOMAIN threads'
        /\ threads'[t] = threads[t]
        /\ call' = call

\* C18: a system that holds a read guard on a slot and requests a write guard on it,
\* or holds a write guard and requests a second guard on it, is never granted the
\* request: it waits in every later state, its group never joins and single_step()
\* never returns
C18_SelfDeadlock ==
    /\ [](C18_SelfConflictWaits)
    /\ [][C18_SelfConflictStep]_vars

\* read_then_write holds its read guard on TestResource and waits for the write
\* guard, after the other system of its group has returned
C18_Witness ==
    \E t, u \in TaskIds :
        /\ threads[t].fn = "read_then_write"
        /\ threads[t].guards = <<ResGuard(TypeIdOf("TestResource"), "r")>>
        /\ SelfConflict(t)
        /\ threads[u].st = "done"


\* u holds a guard on the slot t requests, in conflict with the request
HeldAgainst(t, u) ==
    \E j \in DOMAIN threads[u].guards :
        LET g == threads[u].guards[j]
        IN /\ g.kind = RequestedSlot(t).kind
           /\ g.slot = RequestedSlot(t).slot
           /\ (g.mode = "w" \/ Cur(t).mode = "w")

\* two tasks each request a slot the other holds
CrossWait(t, u) ==
    /\ t # u
    /\ Requesting(t) /\ Requesting(u)
    /\ HeldAgainst(t, u) /\ HeldAgainst(u, t)

\* neither request is granted, and the group can neither join nor be followed
C20_CrossWaitBlocks ==
    \A t, u \in DOMAIN threads : CrossWait(t, u) =>
        /\ ~ENABLED (GetResource(t) \/ ScanComponents(t))
        /\ ~ENABLED (GetResource(u) \/ ScanComponents(u))
        /\ call = "single_step"
        /\ ~Joined
        /\ ~ENABLED RunGroup
        /\ ~ENABLED ReturnSingleStep

\* whatever step is taken, both tasks are still there with the same requests
C20_CrossWaitStep ==
    \A t, u \in DOMAIN threads : CrossWait(t, u) =>
        /\ {t, u} \subseteq DOMAIN threads'
        /\ threads'[t] = threads[t]
        /\ threads'[u] = threads[u]
        /\ call' = call

\* C20: nothing orders the locks of different slots: once a system holding R1
\* requests R2 while a system of its group holding R2 requests R1, neither request
\* is ever granted, nothing times out or is cancelled, the barrier of the group is
\* never passed and single_step() never returns
C20_CrossSlotDeadlock ==
    /\ [](C20_CrossWaitBlocks)
    /\ [][C20_CrossWaitStep]_vars

\* resource_then_counter holds TestResource and requests RunCounter while
\* counter_then_resource holds RunCounter and requests TestResource: no step of
\* the program is left
C20_Witness ==
    /\ \E t, u \in TaskIds :
          /\ threads[t].fn = "resource_then_counter"
          /\ threads[t].guards = <<ResGuard(TypeIdOf("TestResource"), "w")>>
          /\ threads[u].fn = "counter_then_resource"
          /\ threads[u].guards = <<ResGuard(TypeIdOf("RunCounter"), "w")>>
          /\ CrossWait(t, u)
    /\ ~ENABLED NextGuard


====
